---- MODULE Spec2Model ----
(***************************************************************************)
(* TextContainer (src/src/tree/values/nodes/TextContainer.js): a text and  *)
(* the formatting elements laid over it.  The constructor stores the text  *)
(* and a REFERENCE to the caller's array of formatting elements, then      *)
(* constrains startIndex and endIndex of the elements to the text's length *)
(* (find the first element that exceeds it, set it, warn).                 *)
(*                                                                         *)
(* The heap holds the caller's array of formatting elements; its elements  *)
(* are mutable objects.  Every constructor call of the model is handed     *)
(* that array, as a caller does who builds a container again from the      *)
(* elements it parsed.  The array itself is never resized by the code.     *)
(***************************************************************************)
EXTENDS Integers, Sequences, FiniteSets

\* ---------------------------------------------------------------- bounds
MaxLen == 1

MaxSpans == 2

MaxConstructs == 2

\* ---------------------------------------------------------------- inputs
Chars == {"x"}

Texts == UNION {[1..n -> Chars] : n \in 0..MaxLen}

\* Offsets the upstream parser may hand over: below 0, inside the text, at
\* its end, beyond its end.
Offsets == (0 - 1)..(MaxLen + 1)

Positions == {"startIndex", "endIndex"}

Tags == <<"strong", "em">>

\* The tag and attributes of the i-th element of the caller's array.
TagAt(i) == Tags[((i - 1) % Len(Tags)) + 1]

AttributesAt(i) == [id |-> i]

\* A formatting element as the code uses it: the tag it interpolates into the
\* warning, the two positions it compares and assigns, attributes it ignores.
FormattingElement(i, startIndex, endIndex) ==
    [tag |-> TagAt(i), startIndex |-> startIndex, endIndex |-> endIndex,
     attributes |-> AttributesAt(i)]

FormattingArrays ==
    UNION {{[i \in 1..n |-> FormattingElement(i, s[i], e[i])] :
                s \in [1..n -> Offsets], e \in [1..n -> Offsets]} : n \in 0..MaxSpans}

\* The one array reference the model's callers hold.
FormattingRef == "formatting"

VARIABLES heap, instances, console, last

vars == <<heap, instances, console, last>>

\* ---------------------------------------------------------------- code
\* text.length
length(text) == Len(text)

\* The message of console.warn: the tag and the position it interpolates.
Warning(elem, position) == [tag |-> elem.tag, position |-> position]

\* Array.prototype.find with the predicate format[position] > text.length:
\* the index of the first element that satisfies it, 0 for undefined.
findGreaterOrEqual(formatting, text, position) ==
    LET hits == {i \in DOMAIN formatting : formatting[i][position] >= length(text)}
    IN  IF hits = {} THEN 0 ELSE CHOOSE i \in hits : \A j \in hits : i <= j

findOutsideBothBounds(formatting, text, position) ==
    LET hits == {i \in DOMAIN formatting :
                    \/ formatting[i][position] > length(text)
                    \/ formatting[i][position] < 0}
    IN  IF hits = {} THEN 0 ELSE CHOOSE i \in hits : \A j \in hits : i <= j

find(formatting, text, position) ==
    LET hits == {i \in DOMAIN formatting : formatting[i][position] > length(text)}
    IN  IF hits = {} THEN 0 ELSE CHOOSE i \in hits : \A j \in hits : i <= j

\* _constrainFormatElementPositionsToEnd( position ): the elements after the
\* call and the warnings it wrote.
constrainEveryElement(formatting, text, position) ==
    LET hits == {i \in DOMAIN formatting : formatting[i][position] > length(text)}
        e == find(formatting, text, position)
    IN  [formatting |-> [i \in DOMAIN formatting |->
                            IF i \in hits
                            THEN [formatting[i] EXCEPT ![position] = length(text)]
                            ELSE formatting[i]],
         warned |-> IF e = 0 THEN <<>> ELSE <<Warning(formatting[e], position)>>]

constrainWarnFirstTag(formatting, text, position) ==
    LET e == find(formatting, text, position)
    IN  IF e = 0
        THEN [formatting |-> formatting, warned |-> <<>>]
        ELSE [formatting |-> [formatting EXCEPT ![e][position] = length(text)],
              warned |-> <<Warning(formatting[1], position)>>]

constrainToLastIndex(formatting, text, position) ==
    LET e == find(formatting, text, position)
    IN  IF e = 0
        THEN [formatting |-> formatting, warned |-> <<>>]
        ELSE [formatting |-> [formatting EXCEPT ![e][position] = length(text) - 1],
              warned |-> <<Warning(formatting[e], position)>>]

constrainBeyondEnd(formatting, text, position) ==
    LET e == find(formatting, text, position)
    IN  IF e = 0
        THEN [formatting |-> formatting, warned |-> <<>>]
        ELSE [formatting |-> [formatting EXCEPT ![e][position] = length(text) + 1],
              warned |-> <<Warning(formatting[e], position)>>]

constrainFormatElementPositionsToEnd(formatting, text, position) ==
    LET e == find(formatting, text, position)
    IN  IF e = 0
        THEN [formatting |-> formatting, warned |-> <<>>]
        ELSE [formatting |-> [formatting EXCEPT ![e][position] = length(text)],
              warned |-> <<Warning(formatting[e], position)>>]

\* The constructor's two calls, startIndex first, on the same elements.
constructorStartIndexTwice(formatting, text) ==
    LET s == constrainFormatElementPositionsToEnd(formatting, text, "startIndex")
        e == constrainFormatElementPositionsToEnd(s.formatting, text, "startIndex")
    IN  [formatting |-> e.formatting, warned |-> s.warned \o e.warned]

constructor(formatting, text) ==
    LET s == constrainFormatElementPositionsToEnd(formatting, text, "startIndex")
        e == constrainFormatElementPositionsToEnd(s.formatting, text, "endIndex")
    IN  [formatting |-> e.formatting, warned |-> s.warned \o e.warned]

\* How many elements exceed the text's length at a position.
Offenders(formatting, text, position) ==
    Cardinality({i \in DOMAIN formatting : formatting[i][position] > length(text)})

Max(a, b) == IF a >= b THEN a ELSE b

\* ---------------------------------------------------------------- machine
Init ==
    /\ heap \in [{FormattingRef} -> FormattingArrays]
    /\ instances = <<>>
    /\ console = <<>>
    /\ last = [text |-> <<>>, before |-> heap[FormattingRef], warned |-> <<>>,
               repeat |-> 0, need |-> 0]

\* new TextContainer( text, formatting ) with formatting the caller's array.
Construct(text) ==
    /\ Len(instances) < MaxConstructs
    /\ LET before == heap[FormattingRef]
           r == constructor(before, text)
           again == instances # <<>> /\ last.text = text
       IN  /\ heap' = [heap EXCEPT ![FormattingRef] = r.formatting]
           /\ instances' = Append(instances, [text |-> text, formatting |-> FormattingRef])
           /\ console' = console \o r.warned
           /\ last' = [text |-> text, before |-> before, warned |-> r.warned,
                       repeat |-> IF again THEN last.repeat + 1 ELSE 1,
                       need |-> IF again THEN last.need
                                ELSE Max(Offenders(before, text, "startIndex"),
                                         Offenders(before, text, "endIndex"))]

Next == \E text \in Texts : Construct(text)

Spec == Init /\ [][Next]_vars

\* ---------------------------------------------------------------- properties
\* The latest constructor call: its text, the elements it was handed, the
\* elements it left, the instance it built.
Called == instances # <<>>

Before == last.before

After == heap[instances[Len(instances)].formatting]

TextLen == Len(last.text)

Exceeding(p) == {i \in DOMAIN Before : Before[i][p] > TextLen}

StillExceeding(p) == {i \in DOMAIN After : After[i][p] > TextLen}

FirstExceeding(p) == CHOOSE i \in Exceeding(p) : \A j \in Exceeding(p) : i <= j

Changed(p) == {i \in DOMAIN Before : After[i][p] # Before[i][p]}

Warned(p) == SelectSeq(last.warned, LAMBDA w : w.position = p)

InBoundsBefore ==
    \A i \in DOMAIN Before : \A p \in Positions :
        0 <= Before[i][p] /\ Before[i][p] <= TextLen

\* What a reader gets through the k-th instance.
Read(k) == [text |-> instances[k].text, formatting |-> heap[instances[k].formatting]]

\* C1: after construction every span has 0 <= startIndex <= length(text) and
\* 0 <= endIndex <= length(text).
C1_AllSpansInBounds ==
    Called => \A i \in DOMAIN After : \A p \in Positions :
                  0 <= After[i][p] /\ After[i][p] <= TextLen

C3_OthersUnchangedInEveryField ==
    (Called /\ Cardinality(Exceeding("startIndex")) = 1) =>
        /\ After[FirstExceeding("startIndex")].startIndex = TextLen
        /\ \A i \in DOMAIN Before :
              i # FirstExceeding("startIndex") => After[i] = Before[i]

\* C3 as amended: when exactly one span has startIndex > length(text), after
\* construction it has startIndex = length(text), and every other span keeps
\* its tag, startIndex and attributes; its endIndex changes only if it is the
\* first span with endIndex > length(text), and then to length(text).
C3_OthersUnchangedButFirstEndIndex ==
    (Called /\ Cardinality(Exceeding("startIndex")) = 1) =>
        /\ After[FirstExceeding("startIndex")].startIndex = TextLen
        /\ \A i \in DOMAIN Before :
              i # FirstExceeding("startIndex") =>
                  /\ After[i] = [Before[i] EXCEPT !.endIndex = After[i].endIndex]
                  /\ After[i].endIndex # Before[i].endIndex =>
                        /\ i = FirstExceeding("endIndex")
                        /\ After[i].endIndex = TextLen

C3_Witness ==
    /\ Called
    /\ Cardinality(Exceeding("startIndex")) = 1
    /\ After[FirstExceeding("startIndex")].startIndex = TextLen
    /\ \E i \in DOMAIN Before :
          /\ i # FirstExceeding("startIndex")
          /\ Before[i].endIndex > TextLen
          /\ After[i].endIndex = TextLen

\* C4: when every input span has both offsets within 0..length(text),
\* construction leaves the text and every field of every span as given, in
\* the same order, and writes no diagnostic.
C4_NoOpWhenInBounds ==
    (Called /\ InBoundsBefore) =>
        /\ After = Before
        /\ instances[Len(instances)].text = last.text
        /\ last.warned = <<>>

C4_Witness ==
    /\ Called
    /\ InBoundsBefore
    /\ last.warned = <<>>
    /\ \E i \in DOMAIN Before : \E p \in Positions : Before[i][p] = TextLen

\* C5: each pass picks the first span exceeding length(text) at its own
\* attribute only: that span ends with the attribute at length(text), and
\* with its other attribute as given when that one did not exceed; the two
\* passes can correct two different spans.
C5_AttributesIndependent ==
    Called => \A p \in Positions : \A q \in Positions \ {p} :
                  Exceeding(p) # {} =>
                      LET i == FirstExceeding(p)
                      IN  /\ After[i][p] = TextLen
                          /\ Before[i][q] <= TextLen => After[i][q] = Before[i][q]

C5_Witness ==
    /\ Called
    /\ Exceeding("startIndex") # {}
    /\ Exceeding("endIndex") # {}
    /\ FirstExceeding("startIndex") # FirstExceeding("endIndex")
    /\ Changed("startIndex") = {FirstExceeding("startIndex")}
    /\ Changed("endIndex") = {FirstExceeding("endIndex")}
    /\ Before[FirstExceeding("endIndex")].startIndex <= TextLen
    /\ Before[FirstExceeding("startIndex")].endIndex <= TextLen

\* C6: with the empty text, after construction every span that had
\* startIndex > 0 has startIndex = 0 and every span that had endIndex > 0 has
\* endIndex = 0.
C6_EmptyTextClampsEverySpan ==
    (Called /\ last.text = <<>>) =>
        \A i \in DOMAIN Before : \A p \in Positions :
            Before[i][p] > 0 => After[i][p] = 0

\* C7: a pass writes a diagnostic exactly when it changed an offset; the
\* diagnostic carries the tag of the span that was changed and the attribute
\* of the pass; a construction writes at most one diagnostic per attribute and
\* at most two in all, and they are what the console received last.
C7_DiagnosticsMatchCorrections ==
    Called =>
        /\ \A p \in Positions :
              /\ Len(Warned(p)) = Cardinality(Changed(p))
              /\ Len(Warned(p)) <= 1
              /\ \A i \in Changed(p) : Warned(p)[1].tag = Before[i].tag
        /\ \A n \in DOMAIN last.warned : last.warned[n].position \in Positions
        /\ Len(last.warned) <= 2
        /\ Len(console) >= Len(last.warned)
        /\ \A n \in DOMAIN last.warned :
              console[Len(console) - Len(last.warned) + n] = last.warned[n]

C7_Witness ==
    /\ Called
    /\ Len(last.warned) = 2
    /\ \E i \in Changed("startIndex") : Before[i].tag # Before[1].tag
    /\ \E i \in Changed("endIndex") : Before[i].tag = Before[1].tag

\* C8: once an instance is constructed, no later step changes the text or any
\* span read through it.
C8_NoInstanceChangesAfterConstruction ==
    [][\A k \in DOMAIN instances : Read(k)' = Read(k)]_vars

\* C9: an offset that is negative, or equal to length(text), is the same
\* after construction, and a pass in which no offset exceeds length(text)
\* writes no diagnostic, whatever negative offsets it meets.
C9_OnlyUpperBoundChecked ==
    Called => \A p \in Positions :
                  /\ \A i \in DOMAIN Before :
                        (Before[i][p] < 0 \/ Before[i][p] = TextLen) =>
                            After[i][p] = Before[i][p]
                  /\ Exceeding(p) = {} => Warned(p) = <<>>

C9_Witness ==
    /\ Called
    /\ \E p \in Positions :
          /\ \E i \in DOMAIN Before : Before[i][p] < 0 /\ After[i][p] < 0
          /\ \E i \in DOMAIN Before : Before[i][p] = TextLen
          /\ Warned(p) = <<>>

====
